---- MODULE Spec2Model ----
(***************************************************************************)
(* dblock: a distributed lock over Redis (redislock) or over a relational  *)
(* table (rdblock).                                                        *)
(*                                                                         *)
(* Time is counted in ticks; a millisecond is Millisecond ticks, so that   *)
(* durations shorter than a millisecond exist and the conversions          *)
(* ttl/time.Millisecond of redislock.go are real divisions.  Strings are   *)
(* sequences of characters, so that token ++ metadata is a concatenation   *)
(* and the prefix comparison of luaObtain is a comparison of prefixes.     *)
(*                                                                         *)
(* One behaviour runs against one backend (variable backend, fixed by      *)
(* Init).  Every caller is a goroutine of its own: it is either idle, or   *)
(* inside Obtain between the INSERT and the UPDATE of rdblock ("update"),  *)
(* or inside Obtain waiting out a backoff ("wait").  A backend call is one *)
(* atomic step, made at the instant `now`.                                 *)
(***************************************************************************)
EXTENDS Integers, Sequences, FiniteSets, TLC

\* ---------------------------------------------------------------- bounds
MaxTime == 4            \* the clock stops here
MaxTTL == 4             \* the longest ttl a caller asks for, in ticks
Millisecond == 2        \* ticks per millisecond (time.Millisecond)
TmpLen == 2             \* the bytes of the scratch buffer (16 in the code)
MaxCalls == 2           \* the randomToken calls a caller makes

Callers == {"c1", "c2"}
Keys == {"k1"}
GenTokens == {<<"g">>}      \* what crypto/rand may produce
Second == 1000 * Millisecond

\* The Options callers pass: Token (<< >> is unset) and Meta.  "a" ++ "b" and
\* "ab" ++ "" are the same value under two tokens.
AllOptions ==
    {[Token |-> <<"a">>, Meta |-> << >>],
     [Token |-> <<"a">>, Meta |-> <<"b">>],
     [Token |-> <<"a", "b">>, Meta |-> << >>],
     [Token |-> << >>, Meta |-> << >>]}
\* The Options of the calls that retry.
FewOptions ==
    {[Token |-> <<"a">>, Meta |-> << >>],
     [Token |-> << >>, Meta |-> << >>]}

Min(a, b) == IF a <= b THEN a ELSE b

VARIABLES
    backend,    \* "kv" (redislock) or "rdb" (rdblock)
    mode,       \* "plain": Obtain with no strategy and no deadline; "retry"
    now,        \* the clock, in ticks
    kv,         \* the Redis keyspace: key -> entry
    rdb,        \* the shedlock table: lock_name -> row
    pc,         \* caller -> "idle" | "update" | "wait"
    call,       \* caller -> the locals of the Obtain it is inside
    handle,     \* caller -> the Lock its last successful Obtain returned
    last,       \* the call or step that was just made, and what it returned
    tmp,        \* redislock Client.tmp: the scratch buffer of randomToken
    tmpMu,      \* redislock Client.tmpMu: the caller that holds it, or Unlocked
    gen         \* caller -> the randomToken call it is inside, or last made

lockvars == <<backend, mode, now, kv, rdb, pc, call, handle, last>>
tokvars == <<tmp, tmpMu, gen>>
vars == <<lockvars, tokvars>>

\* ------------------------------------------------------- the two stores
\* A Redis entry.  value and expireAt (in Redis' millisecond clock) are what
\* Redis holds; owner, gTTL and gExp are history: the token of the Obtain
\* that wrote the value, and the ttl and the instant t + ttl of the Obtain or
\* Refresh that last set the lease, at t and with ttl.
NoEntry ==
    [exists |-> FALSE, value |-> << >>, expireAt |-> 0,
     owner |-> << >>, gTTL |-> 0, gExp |-> 0]

\* A row of the table: the columns the statements' WHERE clauses read and
\* meta_value (locked_at, locked_by and locked_pid are written and never
\* read), and the history fields gTTL and gExp (after a Release: no ttl, and
\* the lock_until the Release wrote) and gFirst: the row is as the INSERT
\* that created it wrote it.
NoRow ==
    [exists |-> FALSE, lock_until |-> 0,
     token_value |-> << >>, meta_value |-> << >>, gTTL |-> 0, gExp |-> 0,
     gFirst |-> FALSE]

\* Redis' clock has millisecond resolution.
RedisNow == now \div Millisecond

\* ------------------------------------------------------------- strategies
\* dblock.NoRetry(): a single attempt.
NoRetry == [kind |-> "NoRetry", backoff |-> 0, left |-> 0]

\* A strategy that gives `left` positive backoffs and then stops, and one that
\* never stops.
RetryStrategies ==
    {NoRetry,
     [kind |-> "Limit", backoff |-> 1, left |-> 1],
     [kind |-> "Forever", backoff |-> 2, left |-> 0]}

\* Options.GetRetryStrategy: the strategy of the options, NoRetry when unset.
UnsetRetry == [kind |-> "nil", backoff |-> 0, left |-> 0]
GetRetryStrategy(r) == IF r.kind # "nil" THEN r ELSE NoRetry

\* RetryStrategy.NextBackoff: the next backoff (0 means stop) and the
\* strategy's state after the call.
NextBackoff(r) ==
    CASE r.kind = "Forever" -> [d |-> r.backoff, r |-> r]
      [] r.kind = "Limit" /\ r.left > 0 ->
            [d |-> r.backoff, r |-> [r EXCEPT !.left = @ - 1]]
      [] OTHER -> [d |-> 0, r |-> r]

\* ------------------------------------------------------------ redislock
\* int64(ttl/time.Millisecond): Go's integer division.
TtlVal(ttl) == ttl \div Millisecond

\* GET: the value of a key that exists and has not expired, else nil.
Nil == <<"nil">>
\* (A Redis that never expires a key.)
RedisLive_NoExpiry(e) == e.exists
RedisLive(e) == e.exists /\ RedisNow < e.expireAt
RedisGet(e) == IF RedisLive(e) THEN e.value ELSE Nil

\* GETRANGE key 0 end (end >= 0) and string.sub(s, 1, n).
GetRange(s, end) == SubSeq(s, 1, Min(end + 1, Len(s)))
StringSub(s, n) == SubSeq(s, 1, Min(n, Len(s)))

\* SET key value PX px, by an Obtain at this instant.
RedisSet(value, px, offset, ttl) ==
    [exists |-> TRUE, value |-> value, expireAt |-> RedisNow + px,
     owner |-> SubSeq(value, 1, offset), gTTL |-> ttl, gExp |-> now + ttl]

\* The prefix comparison of luaObtain: the first offset bytes of the stored
\* value against the first offset bytes of the new one.
SamePrefix(e, value, offset) ==
    GetRange(e.value, offset - 1) = StringSub(value, offset)

\* (An obtain script that is SET NX alone.)
luaObtain_SetNX(e, value, offset, px, ttl) ==
    IF px <= 0 THEN [reply |-> "err", e |-> e]
    ELSE IF ~RedisLive(e)
        THEN [reply |-> "OK", e |-> RedisSet(value, px, offset, ttl)]
    ELSE [reply |-> "nil", e |-> e]

\* luaObtain.  SET with a PX that is not positive is an error of Redis
\* ("invalid expire time"), whatever the key holds.
luaObtain(e, value, offset, px, ttl) ==
    IF px <= 0 THEN [reply |-> "err", e |-> e]
    ELSE IF ~RedisLive(e)
        THEN [reply |-> "OK", e |-> RedisSet(value, px, offset, ttl)]
    ELSE IF SamePrefix(e, value, offset)
        THEN [reply |-> "OK", e |-> RedisSet(value, px, offset, ttl)]
    ELSE [reply |-> "nil", e |-> e]

\* luaRefresh.  PEXPIRE with a timeout that is not positive deletes the key
\* and replies 1.
luaRefresh(e, value, px, ttl) ==
    IF RedisGet(e) = value
    THEN [reply |-> 1,
          e |-> IF px <= 0 THEN NoEntry
                ELSE [e EXCEPT !.expireAt = RedisNow + px, !.gTTL = ttl,
                               !.gExp = now + ttl]]
    ELSE [reply |-> 0, e |-> e]

\* (A release script that deletes the key whatever it holds.)
luaRelease_AlwaysDel(e, value) ==
    [reply |-> IF RedisGet(e) = value THEN 1 ELSE 0, e |-> NoEntry]

\* luaRelease.
luaRelease(e, value) ==
    IF RedisGet(e) = value THEN [reply |-> 1, e |-> NoEntry]
    ELSE [reply |-> 0, e |-> e]

\* luaPTTL: the remaining milliseconds, or -3.
luaPTTL(e, value) ==
    IF RedisGet(e) = value THEN e.expireAt - RedisNow ELSE 0 - 3

\* ------------------------------------------------------------- rdblock
\* shedLock.insert: the row the INSERT statement writes.
insert(cl) ==
    [exists |-> TRUE, lock_until |-> cl.lockUntil,
     token_value |-> cl.token, meta_value |-> cl.meta,
     gTTL |-> cl.ttl, gExp |-> now + cl.ttl, gFirst |-> TRUE]

\* The WHERE clause of shedLock.update: both {Until} of the statement are
\* replaced by the lock_until the caller asks for.
UpdateWhere(row, cl) == row.exists /\ row.lock_until <= cl.lockUntil

\* shedLock.update: rows affected and the row afterwards.
update(row, cl) ==
    IF UpdateWhere(row, cl)
    THEN [rowsAffected |-> 1, row |-> [insert(cl) EXCEPT !.gFirst = FALSE]]
    ELSE [rowsAffected |-> 0, row |-> row]

\* The WHERE clause of extend, unlock and query.
TokenWhere(row, token) == row.exists /\ row.token_value = token

\* shedLock.extend.
extend(row, token, until, ttl) ==
    IF TokenWhere(row, token)
    THEN [rowsAffected |-> 1,
          row |-> [row EXCEPT !.lock_until = until, !.gTTL = ttl,
                              !.gExp = now + ttl, !.gFirst = FALSE]]
    ELSE [rowsAffected |-> 0, row |-> row]

\* (An unlock that deletes the row.)
unlock_Delete(row, token) ==
    IF TokenWhere(row, token) THEN [rowsAffected |-> 1, row |-> NoRow]
    ELSE [rowsAffected |-> 0, row |-> row]

\* shedLock.unlock: lock_until becomes one second ago.
unlock(row, token) ==
    IF TokenWhere(row, token)
    THEN [rowsAffected |-> 1,
          row |-> [row EXCEPT !.lock_until = now - Second, !.gTTL = 0,
                              !.gExp = now - Second, !.gFirst = FALSE]]
    ELSE [rowsAffected |-> 0, row |-> row]

\* shedLock.query.
query(row, token) == TokenWhere(row, token)

\* --------------------------------------------------------------- handles
NoLock == [kind |-> "nil"]

\* Lock.Token and Lock.Metadata: redislock slices value at tokenLen, rdblock
\* returns its fields.  (rdblock's Lock.Until is written and never read.)
Token(l) == IF l.kind = "kv" THEN SubSeq(l.value, 1, l.tokenLen) ELSE l.token
\* (A Metadata that does not skip the token.)
Metadata_Whole(l) == IF l.kind = "kv" THEN l.value ELSE l.metadata
Metadata(l) ==
    IF l.kind = "kv" THEN SubSeq(l.value, l.tokenLen + 1, Len(l.value))
    ELSE l.metadata

\* The Lock a successful Obtain returns.
NewLock(cl) ==
    IF backend = "kv"
    THEN [kind |-> "kv", Key |-> cl.key, value |-> cl.token \o cl.meta,
          tokenLen |-> Len(cl.token)]
    ELSE [kind |-> "rdb", Key |-> cl.key, token |-> cl.token,
          metadata |-> cl.meta]

\* ----------------------------------------------------------------- state
\* A caller's context may carry a deadline this far ahead: before the ttl is
\* over, or after.
CtxDelays == {2, MaxTTL}
NoCtxDeadline == 0 - 1

\* What the callers of a behaviour pass to Obtain.
Options == IF mode = "plain" THEN AllOptions ELSE FewOptions
TTLs == IF mode = "plain" THEN 1..MaxTTL ELSE (MaxTTL - 1)..MaxTTL
\* In mode "retry" one caller passes strategies and deadlines, against the
\* others that pass none; in mode "fault" it passes strategies, and a call
\* to the backend may fail (the transport, the storage).
Retrier == CHOOSE c \in Callers : TRUE
Retries(c) ==
    IF mode = "plain" \/ c # Retrier THEN {UnsetRetry} ELSE RetryStrategies
Faults == IF mode = "fault" THEN {FALSE, TRUE} ELSE {FALSE}
CtxDeadlines(c) ==
    IF mode # "retry" \/ c # Retrier THEN {NoCtxDeadline}
    ELSE {NoCtxDeadline} \cup {now + d : d \in CtxDelays}

NoCall ==
    [key |-> CHOOSE k \in Keys : TRUE, optToken |-> << >>, token |-> << >>,
     meta |-> << >>, ttl |-> 0, retry |-> NoRetry, start |-> 0,
     hasDeadline |-> FALSE, deadline |-> 0, lockUntil |-> 0, wakeAt |-> 0,
     attempts |-> 0, backoffs |-> 0, faulted |-> FALSE]

\* The record of a key as a call found it: whether there is one, whose it
\* is, whether its lease is live, whether its promised time is over,
\* whether it is a row just as its INSERT wrote it, and whether it is as a
\* Release leaves it (no key, or a row whose lease a Release ended).
Rec(k) == IF backend = "kv" THEN kv[k] ELSE rdb[k]
Live(rec) ==
    IF backend = "kv" THEN RedisLive(rec) ELSE rec.exists /\ now < rec.lock_until
Owner(rec) == IF backend = "kv" THEN rec.owner ELSE rec.token_value
Released(rec) ==
    IF backend = "kv" THEN ~rec.exists ELSE rec.exists /\ rec.gTTL = 0
Found(rec) ==
    [exists |-> rec.exists, live |-> Live(rec), owner |-> Owner(rec),
     over |-> now >= rec.gExp,
     first |-> IF backend = "kv" THEN FALSE ELSE rec.gFirst,
     released |-> Released(rec)]

NoOp ==
    [op |-> "none", c |-> CHOOSE c \in Callers : TRUE, ret |-> "none",
     pre |-> [exists |-> FALSE, live |-> FALSE, owner |-> << >>,
              over |-> TRUE, first |-> FALSE, released |-> FALSE],
     d |-> 0, cl |-> NoCall]

\* A Client as redislock.New returns it: no buffer yet, the mutex free.
\* A randomToken call: where it is, how many bytes it has read, the bytes
\* it wrote into the buffer (history), the string it returned and whether it
\* returned an error, and how many calls the caller has made.
Unlocked == "none"
NoGen ==
    [pc |-> "idle", n |-> 0, wrote |-> << >>, token |-> << >>,
     err |-> FALSE, calls |-> 0]
InitToken ==
    /\ tmp = << >>
    /\ tmpMu = Unlocked
    /\ gen = [c \in Callers |-> NoGen]

InitMode(m) ==
    /\ InitToken
    /\ backend \in {"kv", "rdb"}
    /\ mode = m
    /\ now = 0
    /\ kv = [k \in Keys |-> NoEntry]
    /\ rdb = [k \in Keys |-> NoRow]
    /\ pc = [c \in Callers |-> "idle"]
    /\ call = [c \in Callers |-> NoCall]
    /\ handle = [c \in Callers |-> NoLock]
    /\ last = NoOp

Init == InitMode("plain")

\* (A context that is never done.)
CtxIsDone_Never(cl) == FALSE
\* A context is done from its deadline on; a backend call made with a done
\* context fails with the context's error.
CtxIsDone(cl) == now >= cl.deadline

\* ---------------------------------------------------------------- Obtain
\* Obtain returns: the caller is idle again, with `code` as the result and,
\* on success, the new Lock.
Return(c, cl, code, pre) ==
    /\ pc' = [pc EXCEPT ![c] = "idle"]
    /\ call' = [call EXCEPT ![c] = NoCall]
    /\ handle' = IF code = "ok" THEN [handle EXCEPT ![c] = NewLock(cl)]
                 ELSE handle
    /\ last' = [op |-> "Obtain", c |-> c, ret |-> code, pre |-> Found(pre),
                d |-> cl.ttl, cl |-> cl]

\* The attempt found the lock busy: ask the strategy; a backoff < 1 ends the
\* call with ErrNotObtained, otherwise the ticker is set and the call waits.
Busy(c, cl, pre) ==
    LET nb == NextBackoff(cl.retry)
        cl1 == [cl EXCEPT !.retry = nb.r, !.backoffs = @ + 1]
    IN  IF nb.d < 1
        THEN Return(c, cl1, "ErrNotObtained", pre)
        ELSE /\ pc' = [pc EXCEPT ![c] = "wait"]
             /\ call' = [call EXCEPT ![c] = [cl1 EXCEPT !.wakeAt = now + nb.d]]
             /\ handle' = handle
             /\ last' = [op |-> "busy", c |-> c, ret |-> "wait", pre |-> Found(pre),
                         d |-> nb.d, cl |-> NoCall]

\* redislock: one pass of the loop of Client.Obtain, from c.obtain on.
AttemptKV(c, cl0) ==
    \E f \in Faults :
    LET cl == [cl0 EXCEPT !.attempts = @ + 1,
                          !.faulted = f /\ ~CtxIsDone(cl0)]
        pre == kv[cl.key]
        r == luaObtain(pre, cl.token \o cl.meta, Len(cl.token),
                       TtlVal(cl.ttl), cl.ttl)
    IN  /\ rdb' = rdb
        /\ IF CtxIsDone(cl)
           THEN kv' = kv /\ Return(c, cl, "ctxErr", pre)
           ELSE IF f
           THEN kv' = kv /\ Return(c, cl, "backendErr", pre)
           ELSE /\ kv' = [kv EXCEPT ![cl.key] = r.e]
                /\ CASE r.reply = "OK" -> Return(c, cl, "ok", pre)
                     [] r.reply = "nil" -> Busy(c, cl, pre)
                     [] OTHER -> Return(c, cl, "backendErr", pre)

\* rdblock: Client.obtain up to the INSERT.  Whatever error the INSERT ends
\* with (a duplicate key, a done context, a fault), insert reports false and
\* the UPDATE follows.
AttemptInsert(c, cl0) ==
    \E f \in Faults :
    LET cl == [cl0 EXCEPT !.attempts = @ + 1,
                          !.faulted = f /\ ~CtxIsDone(cl0)]
        pre == rdb[cl.key]
    IN  /\ kv' = kv
        /\ IF ~CtxIsDone(cl) /\ ~f /\ ~pre.exists
           THEN /\ rdb' = [rdb EXCEPT ![cl.key] = insert(cl)]
                /\ Return(c, cl, "ok", pre)
           ELSE /\ rdb' = rdb
                /\ pc' = [pc EXCEPT ![c] = "update"]
                /\ call' = [call EXCEPT ![c] = cl]
                /\ handle' = handle
                /\ last' = [op |-> "insert", c |-> c, ret |-> "failed",
                            pre |-> Found(pre), d |-> cl.ttl, cl |-> NoCall]

Attempt(c, cl) ==
    IF backend = "kv" THEN AttemptKV(c, cl) ELSE AttemptInsert(c, cl)

\* crypto/rand: any token it may produce.
RandomToken == GenTokens

\* Client.Obtain, up to and including the first attempt (the INSERT, on
\* rdblock).
Obtain(c) ==
    /\ pc[c] = "idle"
    /\ \E k \in Keys, ttl \in TTLs, opt \in Options, retry \in Retries(c),
          ctxd \in CtxDeadlines(c) :
        \E token \in (IF opt.Token = << >> THEN RandomToken ELSE {opt.Token}) :
            LET has == ctxd # NoCtxDeadline
                cl == [key |-> k, optToken |-> opt.Token, token |-> token,
                       meta |-> opt.Meta, ttl |-> ttl,
                       retry |-> GetRetryStrategy(retry), start |-> now,
                       hasDeadline |-> has,
                       deadline |-> IF has THEN ctxd ELSE now + ttl,
                       lockUntil |-> now + ttl, wakeAt |-> 0, attempts |-> 0,
                       backoffs |-> 0, faulted |-> FALSE]
            IN  /\ cl.deadline <= MaxTime
                /\ Attempt(c, cl)
    /\ UNCHANGED <<tokvars, backend, mode, now>>

\* rdblock: the UPDATE of Client.obtain, and the rest of the loop's pass.
ObtainUpdate(c) ==
    /\ pc[c] = "update"
    /\ \E f \in Faults :
       LET cl == [call[c] EXCEPT !.faulted = @ \/ (f /\ ~CtxIsDone(call[c]))]
           pre == rdb[cl.key]
           r == update(pre, cl)
       IN  IF CtxIsDone(cl)
           THEN rdb' = rdb /\ Return(c, cl, "ctxErr", pre)
           ELSE IF f
           THEN rdb' = rdb /\ Return(c, cl, "backendErr", pre)
           ELSE /\ rdb' = [rdb EXCEPT ![cl.key] = r.row]
                /\ IF r.rowsAffected > 0 THEN Return(c, cl, "ok", pre)
                   ELSE Busy(c, cl, pre)
    /\ UNCHANGED <<tokvars, backend, mode, now, kv>>

\* (A select without the case <-ctx.Done().)
WakeTime_TickerOnly(cl) == cl.wakeAt
\* The select of the loop: the instant from which one of its cases is ready.
WakeTime(cl) == Min(cl.wakeAt, cl.deadline)

\* case <-ticker.C: the next pass of the loop.
TickerFire(c) ==
    /\ pc[c] = "wait"
    /\ now >= call[c].wakeAt
    /\ Attempt(c, call[c])
    /\ UNCHANGED <<tokvars, backend, mode, now>>

\* case <-ctx.Done(): Obtain returns ctx.Err().
CtxDone(c) ==
    /\ pc[c] = "wait"
    /\ CtxIsDone(call[c])
    /\ Return(c, call[c], "ctxErr", Rec(call[c].key))
    /\ UNCHANGED <<tokvars, backend, mode, now, kv, rdb>>

\* ------------------------------------------------- the Lock's operations
HasLock(c) == pc[c] = "idle" /\ handle[c].kind # "nil"

Done(c, op, ret, pre, d) ==
    /\ last' = [op |-> op, c |-> c, ret |-> ret, pre |-> Found(pre), d |-> d,
                cl |-> NoCall]
    /\ UNCHANGED <<tokvars, backend, mode, now, pc, call, handle>>

\* Lock.Refresh of redislock.
RefreshKV(c, ttl) ==
    LET l == handle[c]
        r == luaRefresh(kv[l.Key], l.value, TtlVal(ttl), ttl)
    IN  /\ kv' = [kv EXCEPT ![l.Key] = r.e]
        /\ rdb' = rdb
        /\ Done(c, "Refresh", IF r.reply = 1 THEN "ok" ELSE "ErrNotObtained",
                kv[l.Key], ttl)

\* Lock.Refresh of rdblock.
RefreshRDB(c, ttl) ==
    LET l == handle[c]
        r == extend(rdb[l.Key], l.token, now + ttl, ttl)
    IN  /\ rdb' = [rdb EXCEPT ![l.Key] = r.row]
        /\ kv' = kv
        /\ Done(c, "Refresh",
                IF r.rowsAffected > 0 THEN "ok" ELSE "ErrNotObtained",
                rdb[l.Key], ttl)

\* The script or the statement of a Refresh or a Release fails: the call
\* returns that error.
Fault(c, op) ==
    /\ last' = [op |-> op, c |-> c, ret |-> "backendErr",
                pre |-> Found(Rec(handle[c].Key)), d |-> 0,
                cl |-> [NoCall EXCEPT !.faulted = TRUE]]
    /\ UNCHANGED <<tokvars, backend, mode, now, kv, rdb, pc, call, handle>>

Refresh(c) ==
    /\ HasLock(c)
    /\ \E f \in Faults :
        IF f THEN Fault(c, "Refresh")
        ELSE \E ttl \in TTLs :
            IF backend = "kv" THEN RefreshKV(c, ttl) ELSE RefreshRDB(c, ttl)

\* Lock.Release of redislock.
ReleaseKV(c) ==
    LET l == handle[c]
        r == luaRelease(kv[l.Key], l.value)
    IN  /\ kv' = [kv EXCEPT ![l.Key] = r.e]
        /\ rdb' = rdb
        /\ Done(c, "Release", IF r.reply # 1 THEN "ErrLockNotHeld" ELSE "ok",
                kv[l.Key], 0)

\* Lock.Release of rdblock.
ReleaseRDB(c) ==
    LET l == handle[c]
        r == unlock(rdb[l.Key], l.token)
    IN  /\ rdb' = [rdb EXCEPT ![l.Key] = r.row]
        /\ kv' = kv
        /\ Done(c, "Release",
                IF r.rowsAffected > 0 THEN "ok" ELSE "ErrLockNotHeld",
                rdb[l.Key], 0)

Release(c) ==
    /\ HasLock(c)
    /\ \E f \in Faults :
        IF f THEN Fault(c, "Release")
        ELSE IF backend = "kv" THEN ReleaseKV(c) ELSE ReleaseRDB(c)

\* Lock.TTL of redislock: the script's milliseconds as a duration, 0 when the
\* script's answer is not positive.
TTLKV(l) ==
    LET num == luaPTTL(kv[l.Key], l.value)
    IN  IF num > 0 THEN num * Millisecond ELSE 0

\* Lock.TTL of rdblock: lock_until of the row found, less the time now.
TTLRDB(l) ==
    LET row == rdb[l.Key]
    IN  IF ~query(row, l.token) THEN 0
        ELSE IF row.lock_until - now > 0 THEN row.lock_until - now ELSE 0

\* Lock.TTL.
TTL(c) ==
    /\ HasLock(c)
    /\ LET l == handle[c]
       IN  IF backend = "kv"
           THEN Done(c, "TTL", "ok", kv[l.Key], TTLKV(l))
           ELSE Done(c, "TTL", "ok", rdb[l.Key], TTLRDB(l))
    /\ UNCHANGED <<kv, rdb>>

\* ------------------------------------------------------------- the clock
\* A caller inside Obtain is bound by its context: the clock does not pass
\* the instant its select wakes.  The INSERT and the UPDATE of one attempt
\* are made at the same instant (other callers' steps may come between).
Urgent(c) ==
    CASE pc[c] = "wait" -> WakeTime(call[c])
      [] pc[c] = "update" -> Min(now, call[c].deadline)
      [] OTHER -> MaxTime

Tick ==
    /\ now < MaxTime
    /\ \A c \in Callers : now < Urgent(c)
    /\ now' = now + 1
    /\ last' = NoOp
    /\ UNCHANGED <<tokvars, backend, mode, kv, rdb, pc, call, handle>>

\* Callers that pass no strategy never wait.
Next ==
    \/ \E c \in Callers : Obtain(c)
    \/ \E c \in Callers : ObtainUpdate(c)
    \/ \E c \in Callers : Refresh(c)
    \/ \E c \in Callers : Release(c)
    \/ \E c \in Callers : TTL(c)
    \/ Tick

Spec == Init /\ [][Next]_vars

\* Callers that pass strategies and deadlines.
InitRetry == InitMode("retry")

NextRetry ==
    \/ \E c \in Callers : Obtain(c)
    \/ \E c \in Callers : ObtainUpdate(c)
    \/ \E c \in Callers : TickerFire(c)
    \/ \E c \in Callers : CtxDone(c)
    \/ \E c \in Callers : Refresh(c)
    \/ \E c \in Callers : Release(c)
    \/ \E c \in Callers : TTL(c)
    \/ Tick

SpecRetry == InitRetry /\ [][NextRetry]_vars

\* Time passes, and a goroutine inside Obtain whose next step is ready takes
\* it.
SpecRetryFair ==
    /\ SpecRetry
    /\ SF_vars(Tick)
    /\ \A c \in Callers :
           WF_vars(ObtainUpdate(c) \/ TickerFire(c) \/ CtxDone(c))

\* Callers that pass strategies, on a backend whose calls may fail.
InitFault == InitMode("fault")

SpecFault == InitFault /\ [][NextRetry]_vars

\* ------------------------------------------- the two backends side by side
\* The same calls are made on a redislock Client and on an rdblock Client,
\* by callers that pass no strategy, one call after the other.  The callers'
\* tokens differ and are of one length.
PairToken(c) == IF c = Retrier THEN <<"a">> ELSE <<"b">>
PairMetas == {<< >>, <<"b">>}

\* Client.obtain of rdblock, as one call: the INSERT, and the UPDATE when the
\* INSERT fails.
obtain(row, cl) ==
    IF ~row.exists THEN [rowsAffected |-> 1, row |-> insert(cl)]
    ELSE update(row, cl)

\* What the two Clients answered to the call just made.
PairDone(c, op, okv, ordb, d) ==
    last' = [op |-> op, c |-> c, ret |-> <<okv, ordb>>, pre |-> NoOp.pre,
             d |-> d, cl |-> NoCall]

\* The calls go on for as long as the two Clients have answered alike.
Agreed == IF last.op = "none" THEN TRUE ELSE last.ret[1] = last.ret[2]

PairObtain(c) ==
    /\ Agreed
    /\ \E k \in Keys, ttl \in TTLs, meta \in PairMetas :
        LET cl == [NoCall EXCEPT !.key = k, !.optToken = PairToken(c),
                                 !.token = PairToken(c), !.meta = meta,
                                 !.ttl = ttl, !.start = now,
                                 !.deadline = now + ttl,
                                 !.lockUntil = now + ttl, !.attempts = 1]
            r1 == luaObtain(kv[k], cl.token \o cl.meta, Len(cl.token),
                            TtlVal(ttl), ttl)
            r2 == obtain(rdb[k], cl)
            o1 == CASE r1.reply = "OK" -> "ok"
                    [] r1.reply = "nil" -> "ErrNotObtained"
                    [] OTHER -> "backendErr"
            o2 == IF r2.rowsAffected > 0 THEN "ok" ELSE "ErrNotObtained"
        IN  /\ now + ttl <= MaxTime
            /\ kv' = [kv EXCEPT ![k] = r1.e]
            /\ rdb' = [rdb EXCEPT ![k] = r2.row]
            /\ handle' = IF o1 = "ok" /\ o2 = "ok"
                         THEN [handle EXCEPT ![c] =
                                  [kind |-> "pair", Key |-> k,
                                   value |-> cl.token \o cl.meta,
                                   tokenLen |-> Len(cl.token),
                                   token |-> cl.token, metadata |-> cl.meta]]
                         ELSE handle
            /\ PairDone(c, "Obtain", o1, o2, ttl)
    /\ UNCHANGED <<tokvars, backend, mode, now, pc, call>>

PairRefresh(c) ==
    /\ Agreed
    /\ HasLock(c)
    /\ \E ttl \in TTLs :
        LET l == handle[c]
            r1 == luaRefresh(kv[l.Key], l.value, TtlVal(ttl), ttl)
            r2 == extend(rdb[l.Key], l.token, now + ttl, ttl)
        IN  /\ kv' = [kv EXCEPT ![l.Key] = r1.e]
            /\ rdb' = [rdb EXCEPT ![l.Key] = r2.row]
            /\ PairDone(c, "Refresh",
                        IF r1.reply = 1 THEN "ok" ELSE "ErrNotObtained",
                        IF r2.rowsAffected > 0 THEN "ok" ELSE "ErrNotObtained",
                        ttl)
    /\ UNCHANGED <<tokvars, backend, mode, now, pc, call, handle>>

PairRelease(c) ==
    /\ Agreed
    /\ HasLock(c)
    /\ LET l == handle[c]
           r1 == luaRelease(kv[l.Key], l.value)
           r2 == unlock(rdb[l.Key], l.token)
       IN  /\ kv' = [kv EXCEPT ![l.Key] = r1.e]
           /\ rdb' = [rdb EXCEPT ![l.Key] = r2.row]
           /\ PairDone(c, "Release",
                       IF r1.reply # 1 THEN "ErrLockNotHeld" ELSE "ok",
                       IF r2.rowsAffected > 0 THEN "ok" ELSE "ErrLockNotHeld",
                       0)
    /\ UNCHANGED <<tokvars, backend, mode, now, pc, call, handle>>

PairTTL(c) ==
    /\ Agreed
    /\ HasLock(c)
    /\ LET l == handle[c]
       IN  PairDone(c, "TTL",
                    IF TTLKV(l) > 0 THEN "positive" ELSE "zero",
                    IF TTLRDB(l) > 0 THEN "positive" ELSE "zero", 0)
    /\ UNCHANGED <<tokvars, backend, mode, now, kv, rdb, pc, call, handle>>

PairTick == Agreed /\ Tick

InitPair ==
    /\ InitToken
    /\ backend = "pair"
    /\ mode = "plain"
    /\ now = 0
    /\ kv = [k \in Keys |-> NoEntry]
    /\ rdb = [k \in Keys |-> NoRow]
    /\ pc = [c \in Callers |-> "idle"]
    /\ call = [c \in Callers |-> NoCall]
    /\ handle = [c \in Callers |-> NoLock]
    /\ last = NoOp

NextPair ==
    \/ \E c \in Callers : PairObtain(c)
    \/ \E c \in Callers : PairRefresh(c)
    \/ \E c \in Callers : PairRelease(c)
    \/ \E c \in Callers : PairTTL(c)
    \/ PairTick

SpecPair == InitPair /\ [][NextPair]_vars

\* ------------------------------------------ redislock: Client.randomToken
\* Obtain calls without Options.Token, on one Client, each inside
\* randomToken; every statement is a step, io.ReadFull reads byte by byte.
Bytes == {0, 1}
Alphabet == <<"A", "B">>

\* base64.RawURLEncoding.EncodeToString: a new string, one to one with the
\* bytes.
EncodeToString(bs) == [i \in 1..Len(bs) |-> Alphabet[bs[i] + 1]]

\* The call is made (Client.Obtain, token == "").
randomToken(c) ==
    /\ gen[c].pc = "idle"
    /\ gen[c].calls < MaxCalls
    /\ gen' = [gen EXCEPT ![c] = [NoGen EXCEPT !.pc = "lock",
                                               !.calls = gen[c].calls]]
    /\ UNCHANGED <<lockvars, tmp, tmpMu>>

\* (A mutex that never blocks.)
MutexFree_NoMutex == TRUE
\* c.tmpMu.Lock() returns once the mutex is free.
MutexFree == tmpMu = Unlocked

TmpMuLock(c) ==
    /\ gen[c].pc = "lock"
    /\ MutexFree
    /\ tmpMu' = c
    /\ gen' = [gen EXCEPT ![c].pc = "make"]
    /\ UNCHANGED <<lockvars, tmp>>

\* if len(c.tmp) == 0 { c.tmp = make([]byte, 16) }
MakeTmp(c) ==
    /\ gen[c].pc = "make"
    /\ tmp' = IF Len(tmp) = 0 THEN [i \in 1..TmpLen |-> 0] ELSE tmp
    /\ gen' = [gen EXCEPT ![c].pc = "read"]
    /\ UNCHANGED <<lockvars, tmpMu>>

\* io.ReadFull(rand.Reader, tmp): the next byte.
ReadFull(c) ==
    /\ gen[c].pc = "read"
    /\ gen[c].n < TmpLen
    /\ \E b \in Bytes :
         /\ tmp' = [tmp EXCEPT ![gen[c].n + 1] = b]
         /\ gen' = [gen EXCEPT ![c].n = @ + 1,
                               ![c].wrote = Append(@, b)]
    /\ UNCHANGED <<lockvars, tmpMu>>

\* io.ReadFull fails: RandomToken returns "" and the error.
ReadFullErr(c) ==
    /\ gen[c].pc = "read"
    /\ gen[c].n < TmpLen
    /\ gen' = [gen EXCEPT ![c].pc = "unlock", ![c].err = TRUE]
    /\ UNCHANGED <<lockvars, tmp, tmpMu>>

\* return base64.RawURLEncoding.EncodeToString(tmp), nil: the result is
\* built before the deferred Unlock runs.
EncodeTmp(c) ==
    /\ gen[c].pc = "read"
    /\ gen[c].n = TmpLen
    /\ gen' = [gen EXCEPT ![c].pc = "unlock",
                          ![c].token = EncodeToString(tmp)]
    /\ UNCHANGED <<lockvars, tmp, tmpMu>>

\* defer c.tmpMu.Unlock()
TmpMuUnlock(c) ==
    /\ gen[c].pc = "unlock"
    /\ tmpMu' = Unlocked
    /\ gen' = [gen EXCEPT ![c].pc = "idle", ![c].calls = @ + 1]
    /\ UNCHANGED <<lockvars, tmp>>

InitGen ==
    /\ InitToken
    /\ backend = "kv"
    /\ mode = "token"
    /\ now = 0
    /\ kv = [k \in Keys |-> NoEntry]
    /\ rdb = [k \in Keys |-> NoRow]
    /\ pc = [c \in Callers |-> "idle"]
    /\ call = [c \in Callers |-> NoCall]
    /\ handle = [c \in Callers |-> NoLock]
    /\ last = NoOp

NextGen ==
    \/ \E c \in Callers : randomToken(c)
    \/ \E c \in Callers : TmpMuLock(c)
    \/ \E c \in Callers : MakeTmp(c)
    \/ \E c \in Callers : ReadFull(c)
    \/ \E c \in Callers : ReadFullErr(c)
    \/ \E c \in Callers : EncodeTmp(c)
    \/ \E c \in Callers : TmpMuUnlock(c)

SpecGen == InitGen /\ [][NextGen]_vars

TypeOK ==
    /\ backend \in {"kv", "rdb", "pair"}
    /\ now \in 0..MaxTime
    /\ \A c \in Callers : pc[c] \in {"idle", "update", "wait"}

\* ------------------------------------------------------------ the claims
\* C1: mutual exclusion.  On either backend, an Obtain made with a token
\* different from the owner token of the stored record never returns
\* success while that record's lease is live.
C1_MutualExclusion ==
    ~(/\ last.op = "Obtain"
      /\ last.ret = "ok"
      /\ last.pre.live
      /\ last.pre.owner # last.cl.token)

\* The Obtain that just returned found a record of the key, written under
\* another token.
ObtainFoundOther ==
    /\ last.op = "Obtain"
    /\ last.pre.exists
    /\ last.pre.owner # last.cl.token

\* C2: with the default strategy (Spec passes none), an Obtain on a key
\* whose lease is live under a different token makes exactly one attempt and
\* returns ErrNotObtained.
C2_SingleAttemptNotObtained ==
    (ObtainFoundOther /\ last.pre.live) =>
        (last.ret = "ErrNotObtained" /\ last.cl.attempts = 1)

\* C3, as stated: once the ttl of the last Obtain or Refresh of a record has
\* elapsed, an Obtain with any positive ttl by a different token succeeds.
C3_ExpiryAnyPositiveTTL ==
    (ObtainFoundOther /\ last.pre.over /\ last.cl.ttl > 0) => last.ret = "ok"

\* C3, amended: once the ttl of the last Obtain or Refresh of a record has
\* elapsed, an Obtain with a ttl of at least one millisecond by a different
\* token succeeds.
C3_Expiry ==
    (ObtainFoundOther /\ last.pre.over /\ last.cl.ttl >= Millisecond) =>
        last.ret = "ok"

C3_Witness ==
    /\ ObtainFoundOther
    /\ last.pre.over
    /\ ~last.pre.live
    /\ last.cl.ttl >= Millisecond
    /\ last.cl.start > 0
    /\ last.ret = "ok"

\* The call that just returned was made on a handle, and found a record of
\* the handle's key.
OnHandle == last.op \in {"Refresh", "Release", "TTL"}

\* C4: fencing.  When the record stored for the key carries an owner token
\* different from the handle's token, Refresh returns ErrNotObtained,
\* Release returns ErrLockNotHeld and TTL reports 0.
C4_Fencing ==
    (OnHandle /\ last.pre.exists /\ last.pre.owner # Token(handle[last.c])) =>
        CASE last.op = "Refresh" -> last.ret = "ErrNotObtained"
          [] last.op = "Release" -> last.ret = "ErrLockNotHeld"
          [] OTHER -> last.d = 0

\* C5: a Release on a handle whose lease has expired or has been released
\* (the key has no live record) returns ErrLockNotHeld.
C5_ReleaseInactive ==
    (last.op = "Release" /\ ~last.pre.live) => last.ret = "ErrLockNotHeld"

\* C6: TTL returns a value > 0, and at most the ttl last set, exactly when
\* the stored record is owned by the handle's token and has not expired;
\* otherwise it returns 0.
C6_TTL ==
    last.op = "TTL" =>
        /\ last.d > 0 <=>
              (last.pre.live /\ last.pre.owner = Token(handle[last.c]))
        /\ last.d > 0 => last.d <= Rec(handle[last.c].Key).gTTL
        /\ last.d >= 0
        /\ last.ret = "ok"

\* The Obtain that just returned was made on redislock with the token of the
\* live record it found.
SelfReclaim ==
    /\ backend = "kv"
    /\ last.op = "Obtain"
    /\ last.pre.live
    /\ last.pre.owner = last.cl.token

\* C7, as stated: a self-reclaim succeeds on the first attempt, and
\* afterwards the record's remaining ttl is the requested ttl and its
\* metadata the supplied metadata.
C7_SelfReclaimExactTTL ==
    (SelfReclaim /\ last.cl.ttl > 0) =>
        LET e == kv[last.cl.key]
        IN  /\ last.ret = "ok"
            /\ last.cl.attempts = 1
            /\ luaPTTL(e, e.value) * Millisecond = last.cl.ttl
            /\ SubSeq(e.value, Len(last.cl.token) + 1, Len(e.value))
                   = last.cl.meta

\* C7, amended: a self-reclaim with a ttl of at least one millisecond
\* succeeds on the first attempt, and afterwards the record's remaining ttl
\* is the requested ttl in whole milliseconds and its metadata the supplied
\* metadata.
C7_SelfReclaim ==
    (SelfReclaim /\ last.cl.ttl >= Millisecond) =>
        LET e == kv[last.cl.key]
        IN  /\ last.ret = "ok"
            /\ last.cl.attempts = 1
            /\ luaPTTL(e, e.value) = TtlVal(last.cl.ttl)
            /\ e.value = last.cl.token \o last.cl.meta
            /\ SubSeq(e.value, Len(last.cl.token) + 1, Len(e.value))
                   = last.cl.meta

C7_Witness ==
    /\ SelfReclaim
    /\ last.ret = "ok"
    /\ last.cl.meta # << >>
    /\ last.cl.start > 0
    /\ TtlVal(last.cl.ttl) * Millisecond # last.cl.ttl

\* C9: rdblock, the race for a key that has no row.  The Obtain that finds
\* the row as the other caller's INSERT has just written it, live and under
\* another token, returns ErrNotObtained: its UPDATE affects no row.
C9_FirstInsertRace ==
    (/\ backend = "rdb"
     /\ ObtainFoundOther
     /\ last.pre.first
     /\ last.pre.live) => last.ret = "ErrNotObtained"

\* C10: the handle of a successful Obtain gives back the metadata and the
\* token of the call; a token that was not supplied is a generated one, not
\* empty; on redislock the handle's value is token ++ metadata, split at the
\* length of the token.
C10_RoundTrip ==
    (last.op = "Obtain" /\ last.ret = "ok") =>
        LET l == handle[last.c]
        IN  /\ Metadata(l) = last.cl.meta
            /\ Token(l) = last.cl.token
            /\ last.cl.optToken # << >> => Token(l) = last.cl.optToken
            /\ last.cl.optToken = << >> =>
                   (Token(l) \in RandomToken /\ Token(l) # << >>)
            /\ backend = "kv" =>
                   /\ l.value = last.cl.token \o last.cl.meta
                   /\ Token(l) \o Metadata(l) = l.value
                   /\ kv[l.Key].value = l.value

C10_Witness ==
    /\ last.op = "Obtain"
    /\ last.ret = "ok"
    /\ backend = "kv"
    /\ last.cl.meta # << >>
    /\ Metadata(handle[last.c]) = last.cl.meta

\* An Obtain made with a context without a deadline is within its time: the
\* call in progress, or the call that just returned, started at most its ttl
\* ago.
InTime ==
    /\ \A c \in Callers :
          (pc[c] # "idle" /\ ~call[c].hasDeadline) =>
              now <= call[c].start + call[c].ttl
    /\ (last.op = "Obtain" /\ ~last.cl.hasDeadline) =>
              now <= last.cl.start + last.cl.ttl

\* C8: an Obtain started at t0 with ttl T and a context without a deadline
\* always returns, and never later than t0 + T, whatever the strategy and
\* whoever holds the key.
C8_DeadlineRespect ==
    /\ []InTime
    /\ \A c \in Callers : (pc[c] # "idle") ~> (pc[c] = "idle")

\* An Obtain that never stops retrying of itself is ended by its deadline,
\* t0 + T, after it has waited.
C8_Witness ==
    /\ last.op = "Obtain"
    /\ last.ret = "ctxErr"
    /\ ~last.cl.hasDeadline
    /\ last.cl.retry.kind = "Forever"
    /\ last.cl.backoffs > 0
    /\ now = last.cl.start + last.cl.ttl

\* C11: the two backends are interchangeable.  To every call of a sequence
\* of Obtain (no strategy), Refresh, Release and TTL calls by callers with
\* distinct tokens of one length, redislock and rdblock answer alike.
C11_Interchangeable == Agreed

\* C12: a backend fault is never reported as contention.  An Obtain whose
\* attempt made a backend call that faulted returns the fault: it does not
\* return ErrNotObtained nor a handle, and does not go on to wait; a Refresh
\* or a Release whose call faulted returns the fault.
C12_FaultSurfaces ==
    /\ (last.op \in {"Obtain", "Refresh", "Release"} /\ last.cl.faulted) =>
           last.ret = "backendErr"
    /\ last.op = "busy" => ~call[last.c].faulted

\* C13: an Obtain whose context is done while it waits out a backoff returns
\* the context's error, not ErrNotObtained and not a handle; ErrNotObtained
\* is returned only when the strategy says stop.
C13_CancelDuringWait ==
    /\ (last.op = "Obtain" /\ last.cl.backoffs > 0
            /\ now >= last.cl.deadline) => last.ret = "ctxErr"
    /\ (last.op = "Obtain" /\ last.ret = "ErrNotObtained") =>
           (NextBackoff(last.cl.retry).d < 1 /\ now < last.cl.deadline)
    /\ \A c \in Callers : pc[c] = "wait" => now <= call[c].deadline

C13_Witness ==
    /\ last.op = "Obtain"
    /\ last.ret = "ctxErr"
    /\ last.cl.hasDeadline
    /\ last.cl.backoffs > 0
    /\ last.cl.retry.kind = "Forever"
    /\ now = last.cl.deadline
    /\ now < last.cl.start + last.cl.ttl

\* The Obtain that just returned, or that just went to wait, was made on
\* rdblock and found a row: it went through the fallback UPDATE.
ThroughUpdate ==
    /\ backend = "rdb"
    /\ last.op \in {"Obtain", "busy"}
    /\ last.ret \in {"ok", "ErrNotObtained", "wait"}
    /\ last.pre.exists

\* C14: the fallback UPDATE of rdblock claims an existing row if and only if
\* the row's lock_until is not later than the time of the attempt; a row
\* whose lock_until is in the future is never overwritten.
C14_UpdateGuard == ThroughUpdate => (last.ret = "ok" <=> ~last.pre.live)

\* C15: the acquisition deadline is the earlier of the caller's deadline and
\* start + ttl.  Whatever deadline the caller's context carries, no Obtain
\* is waiting, is making an attempt, or returns, after start + ttl.
C15_MinDeadline ==
    /\ \A c \in Callers :
          pc[c] # "idle" => now <= call[c].start + call[c].ttl
    /\ last.op = "Obtain" => now <= last.cl.start + last.cl.ttl

\* The strategy of a call has been consulted once after each of its attempts
\* (all of them busy), or after each but the last.
ConsultedAfterEach(cl) == cl.attempts >= 1 /\ cl.backoffs = cl.attempts
ConsultedAfterAllButLast(cl) == cl.attempts >= 1 /\ cl.backoffs = cl.attempts - 1

\* C16: the order of the acquisition loop.  An Obtain attempts before it
\* first consults the strategy; NextBackoff is called once after each busy
\* attempt and never after a successful or a faulted one; a backoff < 1 ends
\* the call with ErrNotObtained, with no further attempt and no wait.
C16_LoopOrder ==
    /\ \A c \in Callers :
          /\ pc[c] = "wait" =>
                (ConsultedAfterEach(call[c]) /\ ~call[c].faulted)
          /\ pc[c] = "update" => ConsultedAfterAllButLast(call[c])
    /\ last.op = "Obtain" =>
          CASE last.cl.faulted -> ConsultedAfterAllButLast(last.cl)
            [] last.ret \in {"ok", "backendErr"} ->
                  ConsultedAfterAllButLast(last.cl)
            [] last.ret = "ErrNotObtained" ->
                  /\ ConsultedAfterEach(last.cl)
                  /\ NextBackoff(last.cl.retry).d < 1
            [] OTHER ->
                  ConsultedAfterAllButLast(last.cl)
                      \/ ConsultedAfterEach(last.cl)

\* The step is an operation that failed or only read: an attempt of Obtain
\* that found the lock busy (on rdblock its INSERT, then its UPDATE), a
\* Refresh that returned ErrNotObtained, a Release that returned
\* ErrLockNotHeld, a TTL.
FailedOrRead ==
    \/ last'.op = "busy"
    \/ last'.op = "insert"
    \/ last'.op = "Obtain" /\ last'.ret = "ErrNotObtained"
    \/ last'.op = "Refresh" /\ last'.ret = "ErrNotObtained"
    \/ last'.op = "Release" /\ last'.ret = "ErrLockNotHeld"
    \/ last'.op = "TTL"

\* C17: failed operations have no effect.  A busy attempt of Obtain, a
\* Refresh that returns ErrNotObtained, a Release that returns ErrLockNotHeld
\* and every TTL leave the records of both stores (token, metadata, expiry)
\* exactly as they were.
C17_FailedNoEffect == [][FailedOrRead => (kv' = kv /\ rdb' = rdb)]_vars

\* A Refresh through a handle that is not the owner's any more found the
\* live record of another owner and failed.
C17_Witness ==
    /\ last.op = "Refresh"
    /\ last.ret = "ErrNotObtained"
    /\ last.pre.live
    /\ last.pre.owner # Token(handle[last.c])

\* The instant a record's lease ends, and what a record holds besides it.
Expiry(rec) ==
    IF backend = "kv" THEN rec.expireAt * Millisecond ELSE rec.lock_until
Held(rec) ==
    IF backend = "kv" THEN <<rec.exists, rec.value>>
    ELSE <<rec.exists, rec.token_value, rec.meta_value>>
RecAfter(k) == IF backend = "kv" THEN kv'[k] ELSE rdb'[k]

\* The step is a Refresh through a handle whose token owns the live record
\* of its key.
RefreshByOwner ==
    /\ last'.op = "Refresh"
    /\ Live(Rec(handle[last'.c].Key))
    /\ Owner(Rec(handle[last'.c].Key)) = Token(handle[last'.c])

\* The Refresh succeeded, the lease ends ttl' after the Refresh, the token and
\* the metadata stored are as before.
Refreshed ==
    /\ last'.ret = "ok"
    /\ Expiry(RecAfter(handle[last'.c].Key)) = now + last'.d
    /\ Held(RecAfter(handle[last'.c].Key)) = Held(Rec(handle[last'.c].Key))

\* C18: a Refresh(ttl') by the owner of a live lease succeeds and sets the
\* expiry to the time of the Refresh + ttl', leaving the stored token and
\* metadata unchanged; once ttl' has passed with nothing done, TTL returns 0
\* and another caller obtains the key.
C18_RefreshByOwner ==
    [][/\ RefreshByOwner => Refreshed
       /\ (last'.op = "TTL" /\ last'.pre.over) => last'.d = 0
       /\ (last'.op = "Obtain" /\ last'.pre.exists /\ last'.pre.over
               /\ last'.pre.owner # last'.cl.token
               /\ last'.cl.ttl >= Millisecond) => last'.ret = "ok"]_vars

\* The step is a Release that succeeded; the key is then free at once: on
\* redislock the key is deleted, on rdblock the row stays with its token and
\* its metadata and a lock_until in the past.
ReleaseFrees ==
    (last'.op = "Release" /\ last'.ret = "ok") =>
        /\ Released(RecAfter(handle[last'.c].Key))
        /\ ~RedisLive(kv'[handle[last'.c].Key])
        /\ backend = "rdb" =>
              /\ Held(RecAfter(handle[last'.c].Key))
                     = Held(Rec(handle[last'.c].Key))
              /\ Expiry(RecAfter(handle[last'.c].Key)) < now

\* The step is the return of an Obtain, with a ttl of at least minTTL and
\* another token, that found the key as a Release left it (on redislock:
\* the step before was the Release): it succeeded, on rdblock by its UPDATE.
ObtainsReleased(minTTL) ==
    (/\ last'.op = "Obtain"
     /\ Released(Rec(last'.cl.key))
     /\ backend = "kv" =>
           /\ last.op = "Release" /\ last.ret = "ok"
           /\ handle[last.c].Key = last'.cl.key
           /\ Token(handle[last.c]) # last'.cl.token
     /\ Owner(Rec(last'.cl.key)) # last'.cl.token
     /\ last'.cl.ttl >= minTTL) =>
        /\ last'.ret = "ok"
        /\ backend = "rdb" => pc[last'.c] = "update"

\* C19, as stated: a successful Release makes the key immediately
\* available, the next Obtain by any other token (with any positive ttl)
\* succeeds; on rdblock the Release changes only lock_until, to a time in the
\* past, and the next claimant takes the row through the UPDATE.
C19_ReleaseAnyPositiveTTL == [][ReleaseFrees /\ ObtainsReleased(1)]_vars

\* C19, amended: as above, for an Obtain with a ttl of at least one
\* millisecond.
C19_Release == [][ReleaseFrees /\ ObtainsReleased(Millisecond)]_vars

\* An Obtain by another token took over a row whose lease a Release had
\* ended.
C19_Witness ==
    /\ last.op = "Obtain"
    /\ last.ret = "ok"
    /\ last.pre.exists
    /\ last.pre.released
    /\ last.pre.owner # last.cl.token

\* The handles redislock has returned.
KVHandles == {handle[c] : c \in {d \in Callers : handle[d].kind = "kv"}}

\* C20: on the KV backend the token length is fixed per adapter instance.
\* Every Obtain through the Client uses a token as long as the token of the
\* record it finds and of the handles returned before; the prefix comparison
\* of the obtain script succeeds on a live record only for the owner's token;
\* two different (token, metadata) pairs are never the same value.
C20_FixedTokenLength ==
    /\ (backend = "kv" /\ last.op = "Obtain") =>
          /\ last.pre.exists => Len(last.pre.owner) = Len(last.cl.token)
          /\ \A l \in KVHandles : l.tokenLen = Len(last.cl.token)
          /\ (last.ret = "ok" /\ last.pre.live) =>
                last.pre.owner = last.cl.token
    /\ \A l1, l2 \in KVHandles :
          l1.value = l2.value =>
              (Token(l1) = Token(l2) /\ Metadata(l1) = Metadata(l2))

\* C21: no silent loss of ownership.  While the record stored for the key is
\* live and its owner token is the handle's token, the handle's Refresh and
\* Release succeed and its TTL is positive (on redislock also for an
\* earlier handle, after the same token re-obtained the key with other
\* metadata).
C21_NoSilentLoss ==
    (OnHandle /\ last.pre.live /\ last.pre.owner = Token(handle[last.c])) =>
        CASE last.op = "TTL" -> last.d > 0
          [] OTHER -> last.ret = "ok"

\* C22: a lease granted by Obtain lasts the full ttl from the attempt that
\* won it.  When Obtain succeeds, on the first attempt or after backoff
\* waits, the stored expiry is the time of the successful attempt + ttl.
C22_FullLease ==
    (last.op = "Obtain" /\ last.ret = "ok") =>
        Expiry(Rec(last.cl.key)) = now + last.cl.ttl

\* C23: a released or expired lease cannot be revived by Refresh.  A Refresh
\* on a handle whose key has no live record (the lease was released, or it
\* expired) returns ErrNotObtained and leaves the key without a live record.
C23_NoRevival ==
    (last.op = "Refresh" /\ ~last.pre.live) =>
        /\ last.ret = "ErrNotObtained"
        /\ ~Live(Rec(handle[last.c].Key))

\* A caller is between Lock and Unlock; its randomToken has returned a
\* token.
InCritical(c) == gen[c].pc \in {"make", "read", "unlock"}
Returned(c) ==
    /\ ~gen[c].err
    /\ gen[c].pc = "unlock" \/ (gen[c].pc = "idle" /\ gen[c].calls > 0)

\* C24: token generation on one redislock Client is mutually exclusive.
\* The buffer is filled and encoded by one call at a time (the call that
\* holds tmpMu), and the token a call returns is the encoding of the bytes
\* that call wrote, all TmpLen of them.
C24_TokenExclusive ==
    /\ \A c1, c2 \in Callers :
          (InCritical(c1) /\ InCritical(c2)) => c1 = c2
    /\ \A c \in Callers : InCritical(c) => tmpMu = c
    /\ \A c \in Callers :
          Returned(c) =>
              /\ Len(gen[c].wrote) = TmpLen
              /\ gen[c].token = EncodeToString(gen[c].wrote)

\* A call has built its token in a buffer another call used before, while
\* that other caller, inside its next call, waits for the mutex.
C24_Witness ==
    \E c1, c2 \in Callers :
        /\ c1 # c2
        /\ gen[c1].pc = "unlock" /\ ~gen[c1].err
        /\ gen[c2].pc = "lock" /\ gen[c2].calls > 0
        /\ Len(gen[c1].token) = TmpLen
        /\ gen[c1].token[1] = "B"

====
